---- MODULE Spec2Model ----
(***************************************************************************)
(* nuLigaHelper: the daily run of nuLigaHomeGames (nuLigaHelperClass.py).  *)
(* One run downloads the judge schedule from Dropbox, scrapes the league   *)
(* site, merges both tables (merge_tables), sends the change alerts,       *)
(* writes the merged table and uploads it.  The model keeps the tables as  *)
(* sequences of rows; a row maps the column names of get_onlineTable to    *)
(* cell values.                                                            *)
(***************************************************************************)
EXTENDS Integers, Sequences, FiniteSets, TLC

VARIABLES
    website,          \* the table the league site serves in this run
    dropboxFile,      \* the schedule file in the Dropbox folder, or NoFile
    localFile,        \* self.file on the local disk, or NoFile
    onlineTable,      \* self.onlineTable
    gameTable,        \* self.gameTable
    aliased,          \* TRUE when self.gameTable is the object self.onlineTable
    pc,               \* the call of the main program that comes next
    idx,              \* position of merge_tables' loop in onlineTable
    sendError,        \* merge_tables' local flag
    unmatched,        \* games for which line 395 logged the warning
    shiftEvents,      \* calls of send_ShfitNotification by datum_shift_handler
    refEvents,        \* calls of send_RefNotification by no_referee_handler
    merged,           \* games whose volunteer columns were assigned (line 365)
    sent,             \* messages handed to send_Mail / send_SMS in this run
    persistedIn,      \* the table merge_tables found in self.gameTable
    startFile,        \* dropboxFile when the run started
    wrote,            \* write_toXlsx ran in this run
    uploaded,         \* upload_toDropbox stored the file in this run
    run,              \* number of the run
    prev,             \* what the previous run did
    refCoordTargets,  \* config: self.mailRefCoordTargets
    downloaded,       \* get_fromDropbox stored the Dropbox file locally in this run
    fetched,          \* how get_onlineTable ended in this run
    calls,            \* the notification methods the main program called after the upload
    cnt,              \* the main program's cnt
    exception,        \* the exception that ended the main program
    warned            \* receivers for which the notification calls logged the warning

vars == <<website, dropboxFile, localFile, onlineTable, gameTable, aliased, pc,
          idx, sendError, unmatched, shiftEvents, refEvents, merged, sent,
          persistedIn, startFile, wrote, uploaded, run, prev, refCoordTargets,
          downloaded, fetched, calls, cnt, exception, warned>>

\* The variables of the main program's notification calls (lines 1212-1239).
reminderVars == <<calls, cnt, exception, warned>>

\* Bounds of the model.
MaxGames == 2
MaxRuns == 2
MaxArticleGames == 3

----------------------------------------------------------------------------
(* Cells and columns *)

\* A file that does not exist, and the file that holds the rows t.
NoFile == [ exists |-> FALSE, rows |-> <<>> ]
File(t) == [ exists |-> TRUE, rows |-> t ]
\* A missing cell as pandas reads it (float NaN); every other cell is a str or an int.
NaN == "<NaN>"
IsStr(v) == v # NaN

\* The columns in the order get_onlineTable gives them.
Columns ==
    << "colDay", "colDate", "colTime", "colHall", "colNr", "colAK", "colHome",
       "colGuest", "colScore",
       "colJTeam", "colJMV", "colMailJMV", "colJudge1", "colMailJudge1",
       "colJudge2", "colMailJudge2", "colShop1", "colMailShop1", "colShop2",
       "colMailShop2", "colSecurity", "colMailSecurity", "colCleaning",
       "colMailCleaning" >>

ColIndex(c) == CHOOSE i \in 1..Len(Columns) : Columns[i] = c

\* The label slice  table.loc[rows, c:]  : column c and every column after it.
SliceFrom(c) == { Columns[i] : i \in ColIndex(c)..Len(Columns) }

VolunteerCols == SliceFrom("colJTeam")
ScheduleCols == { Columns[i] : i \in 1..Len(Columns) } \ (VolunteerCols \cup {"colNr"})

\* The columns get_gameTable converts with astype(str).
AsTypeStrCols ==
    { "colDate", "colTime", "colMailJMV", "colMailJudge1", "colMailJudge2",
      "colMailShop1", "colMailShop2", "colMailSecurity", "colMailCleaning" }

\* "Heim" in s, "@" in s, "+" in s over the cell values of the model.
ContainsHeim(s) == s \in {"Heim\t", "Heim/Gast\t"}
ContainsAt(s) ==
    s \in {"alice@x.test", "mv@x.test", "d+s@x.test", "ref@x.test", "gus@x.test",
           "carl@x.test"}
ContainsPlus(s) == s \in {"+4917", "d+s@x.test", "+4930", "+4918", "+4919"}

----------------------------------------------------------------------------
(* Tables *)

SeqRange(s) == { s[i] : i \in 1..Len(s) }

\* Positions of the rows selected by  table[colNr] == game.
Match(table, game) == { i \in 1..Len(table) : table[i]["colNr"] = game }

\* Faulty variant: the last row of the selection.
Last(S) == CHOOSE i \in S : \A j \in S : i >= j

\* .values[0] of a selection: its first row.
First(S) == CHOOSE i \in S : \A j \in S : i <= j

GameNumbers(table) == [ i \in 1..Len(table) |-> table[i]["colNr"] ]

NumericCols == {"colHall", "colNr"}

\* pd.read_excel(...).T followed by astype(str) on AsTypeStrCols: an empty cell is
\* read as NaN, and astype(str) turns NaN into the text "nan".
ReadCell(c, v) ==
    IF c \in NumericCols THEN v
    ELSE IF v = "" THEN (IF c \in AsTypeStrCols THEN "nan" ELSE NaN)
    ELSE v

ReadExcel(file) ==
    [ i \in 1..Len(file) |-> [ c \in DOMAIN file[i] |-> ReadCell(c, file[i][c]) ] ]

\* to_excel writes NaN as an empty cell and every other value as it is.
WriteCell(c, v) ==
    IF c \in NumericCols THEN v
    ELSE IF v = NaN THEN ""
    ELSE v

ToExcel(table) ==
    [ i \in 1..Len(table) |-> [ c \in DOMAIN table[i] |-> WriteCell(c, table[i][c]) ] ]

----------------------------------------------------------------------------
(* The league site *)

GameNr(i) == 100 + i

\* A game as the site lists it for one of the club's halls.
BaseGame(i) ==
    [ colDay |-> "Sa.", colDate |-> "03.05.2025", colTime |-> "18:00",
      colHall |-> 1001, colNr |-> GameNr(i), colAK |-> "M", colHome |-> "SV I",
      colGuest |-> "TSV", colScore |-> "SR Huber" ]

\* The listings of game i the model draws from.
SiteGames(i) ==
    LET b == BaseGame(i) IN
    IF i = 1 THEN
        { b,
          [b EXCEPT !.colDay = "Fr.", !.colDate = "09.05.2025"],
          [b EXCEPT !.colTime = "20:00", !.colHall = 1002, !.colHome = "SV II"],
          [b EXCEPT !.colScore = "Heim"],
          [b EXCEPT !.colAK = "GE"],
          [b EXCEPT !.colGuest = "spielfrei"],
          [b EXCEPT !.colGuest = "spielfrei", !.colDay = "Fr.",
                    !.colDate = "09.05.2025", !.colScore = "Heim/Gast"] }
    ELSE
        { b, [b EXCEPT !.colAK = "GE"],
          [b EXCEPT !.colDay = "Fr.", !.colDate = "09.05.2025"] }

RECURSIVE SiteTablesFrom(_)
SiteTablesFrom(i) ==
    IF i > MaxGames THEN { <<>> }
    ELSE LET rest == SiteTablesFrom(i + 1) IN
         rest \cup { <<g>> \o t : g \in SiteGames(i), t \in rest }

Reverse(s) == [ i \in 1..Len(s) |-> s[Len(s) + 1 - i] ]

\* Every listing the site may serve: the games in number order, or the base
\* games in the opposite order.
SiteTables ==
    SiteTablesFrom(1) \cup { Reverse([ i \in 1..MaxGames |-> BaseGame(i) ]) }

\* The empty volunteer cells get_onlineTable adds (np.empty(n, dtype=str)).
EmptyVolunteers == [ c \in VolunteerCols |-> "" ]

\* get_onlineTable: the listed games, the score column as text with a tab
\* appended, and the volunteer columns added empty.
ScrapedRow(g) ==
    [ c \in DOMAIN g \cup VolunteerCols |->
        IF c \in VolunteerCols THEN EmptyVolunteers[c]
        ELSE IF c = "colScore" THEN g[c] \o "\t"
        ELSE g[c] ]

Scrape(site) == [ i \in 1..Len(site) |-> ScrapedRow(site[i]) ]

----------------------------------------------------------------------------
(* The stored schedule file *)

\* Volunteer cells as the club's staff fill them into the stored file: a
\* liaison and a judge with e-mail, a judge and a shop job with a phone number,
\* a contact that is neither, an address with both "@" and "+", and empty
\* cells.
FilledVolunteers ==
    [ colJTeam |-> "mB", colJMV |-> "Max", colMailJMV |-> "mv@x.test",
      colJudge1 |-> "Alice", colMailJudge1 |-> "alice@x.test",
      colJudge2 |-> "Bob", colMailJudge2 |-> "+4917",
      colShop1 |-> "Carl", colMailShop1 |-> "carl",
      colShop2 |-> "Eve", colMailShop2 |-> "+4919",
      colSecurity |-> "Dora", colMailSecurity |-> "d+s@x.test",
      colCleaning |-> "", colMailCleaning |-> "" ]

\* The cells of the later games: the liaison with a phone number, both shop
\* jobs with a valid contact, a judge without one, and a cell that holds the
\* text "nan" since an earlier round trip.  A filled-in contact always comes
\* with its name.
LaterVolunteers ==
    [ colJTeam |-> "wA", colJMV |-> "Mia", colMailJMV |-> "+4918",
      colJudge1 |-> "", colMailJudge1 |-> "",
      colJudge2 |-> "Gus", colMailJudge2 |-> "gus@x.test",
      colShop1 |-> "Carl", colMailShop1 |-> "carl@x.test",
      colShop2 |-> "Ida", colMailShop2 |-> "+4919",
      colSecurity |-> "", colMailSecurity |-> "nan",
      colCleaning |-> "Hal", colMailCleaning |-> "hal" ]

\* The listings an earlier run may have stored.
EarlierGames(i) ==
    LET b == BaseGame(i) IN
    IF i = 1 THEN
        { b, [b EXCEPT !.colGuest = "spielfrei"] }
    ELSE { b }

RECURSIVE EarlierTablesFrom(_)
EarlierTablesFrom(i) ==
    IF i > MaxGames THEN { <<>> }
    ELSE LET rest == EarlierTablesFrom(i + 1) IN
         rest \cup { <<g>> \o t : g \in EarlierGames(i), t \in rest }

EarlierTables ==
    EarlierTablesFrom(1) \cup { Reverse([ i \in 1..MaxGames |-> BaseGame(i) ]) }

\* The file write_toXlsx stored for listing t, filled in by the staff afterwards.
StoredFile(t) ==
    LET w == ToExcel(Scrape(t)) IN
    File([ i \in 1..Len(w) |->
           [ c \in DOMAIN w[i] |->
               IF c \notin VolunteerCols THEN w[i][c]
               ELSE IF w[i]["colNr"] = GameNr(1) THEN FilledVolunteers[c]
               ELSE LaterVolunteers[c] ] ])

\* A stored file the staff edited by hand: the first game has two rows, with
\* different volunteers, dates, times and referees.
DuplicatedFile ==
    LET w == ToExcel(Scrape(<< BaseGame(1),
                               [BaseGame(1) EXCEPT !.colDay = "Fr.",
                                                   !.colDate = "09.05.2025",
                                                   !.colTime = "20:00",
                                                   !.colScore = "Heim"] >>)) IN
    File([ i \in 1..Len(w) |->
           [ c \in DOMAIN w[i] |->
               IF c \notin VolunteerCols THEN w[i][c]
               ELSE IF i = 1 THEN FilledVolunteers[c]
               ELSE LaterVolunteers[c] ] ])

StoredFiles == { StoredFile(t) : t \in EarlierTables } \cup { DuplicatedFile }

\* config["club"]["texts"]["mailRefCoordTargets"]: the coordinators, each with
\* "Name" and "Address"; hasName says whether the entry also has a key "name".
RefCoordConfigs ==
    { << [Name |-> "Ref A", Address |-> "+4930", hasName |-> FALSE],
         [Name |-> "Ref B", Address |-> "ref@x.test", hasName |-> FALSE] >>,
      << [Name |-> "Ref B", Address |-> "ref@x.test", hasName |-> TRUE],
         [Name |-> "Ref C", Address |-> "", hasName |-> TRUE],
         [Name |-> "Ref D", Address |-> NaN, hasName |-> TRUE] >> }

----------------------------------------------------------------------------
(* Messages *)

\* Faulty variant: "+" is looked for before "@".
TransportPlusFirst(mail) ==
    IF ~IsStr(mail) THEN "none"
    ELSE IF ContainsPlus(mail) THEN "sms"
    ELSE IF ContainsAt(mail) THEN "mail"
    ELSE "warning"

\* The branch of the receivers' loops: type(mail) == str, "@" in mail,
\* "+" in mail, else the warning.
Transport(mail) ==
    IF ~IsStr(mail) THEN "none"
    ELSE IF ContainsAt(mail) THEN "mail"
    ELSE IF ContainsPlus(mail) THEN "sms"
    ELSE "warning"

Message(cat, game, task, mail) ==
    [ cat |-> cat, game |-> game, task |-> task, to |-> mail, via |-> Transport(mail) ]

Dispatched(msgs) == SelectSeq(msgs, LAMBDA m : m.via \in {"mail", "sms"})

\* send_ShfitNotification's receivers: the six jobs of the game's row.
ShiftReceivers(row) ==
    << [name |-> row["colJudge1"], mail |-> row["colMailJudge1"], task |-> "colJudge1"],
       [name |-> row["colJudge2"], mail |-> row["colMailJudge2"], task |-> "colJudge2"],
       [name |-> row["colShop1"], mail |-> row["colMailShop1"], task |-> "colShop1"],
       [name |-> row["colShop2"], mail |-> row["colMailShop2"], task |-> "colShop2"],
       [name |-> row["colSecurity"], mail |-> row["colMailSecurity"], task |-> "colSecurity"],
       [name |-> row["colCleaning"], mail |-> row["colMailCleaning"], task |-> "colCleaning"] >>

\* noteTable of send_ShfitNotification: self.gameTable without the "spielfrei"
\* rows (dropna(how="all") drops nothing: every row has its game number).
ShiftNoteTable(table) == SelectSeq(table, LAMBDA r : r["colGuest"] # "spielfrei")

\* send_ShfitNotification(game, ...): [indexError, msgs].  The lookups
\* .values[0] of line 1015 raise IndexError when noteTable has no row of the game.
send_ShfitNotification(table, game) ==
    LET note == ShiftNoteTable(table) IN
    IF Match(note, game) = {}
    THEN [ indexError |-> TRUE, msgs |-> <<>> ]
    ELSE LET row == note[First(Match(note, game))]
             rcv == ShiftReceivers(row)
         IN [ indexError |-> FALSE,
              msgs |-> Dispatched([ i \in 1..Len(rcv) |->
                                     Message("shift", game, rcv[i].task, rcv[i].mail) ]) ]

\* send_RefNotification(game, date, time): [keyError, msgs].  The e-mail branch
\* reads receiver["name"] (line 735), a KeyError for an entry without that key.
RECURSIVE RefLoop(_, _, _)
RefLoop(targets, game, i) ==
    IF i > Len(targets) THEN [ keyError |-> FALSE, msgs |-> <<>> ]
    ELSE LET r == targets[i]
             via == Transport(r.Address)
         IN IF via = "mail" /\ ~r.hasName
            THEN [ keyError |-> TRUE, msgs |-> <<>> ]
            ELSE LET rest == RefLoop(targets, game, i + 1) IN
                 [ keyError |-> rest.keyError,
                   msgs |-> (IF via \in {"mail", "sms"}
                             THEN << Message("ref", game, r.Name, r.Address) >>
                             ELSE <<>>) \o rest.msgs ]

send_RefNotification(targets, game) == RefLoop(targets, game, 1)

\* Faulty variant: the new time compared with the old date.
datum_shift_handlerTimeAgainstDate(oldDate, oldTime, newDate, newTime) ==
    (newDate # oldDate) \/ (newTime # oldDate)

\* Faulty variant: "and" for "or".
datum_shift_handlerBoth(oldDate, oldTime, newDate, newTime) ==
    (newDate # oldDate) /\ (newTime # oldTime)

\* The conditions of the two handlers (lines 312 and 331).
datum_shift_handler(oldDate, oldTime, newDate, newTime) ==
    (newDate # oldDate) \/ (newTime # oldTime)

no_referee_handler(oldRef, newRef) ==
    (newRef # oldRef) /\ ContainsHeim(newRef)

----------------------------------------------------------------------------
(* The run *)

NoPrev == [ ran |-> FALSE, site |-> <<>>, shift |-> {}, ref |-> {},
            unmatched |-> {}, uploaded |-> FALSE, downloaded |-> FALSE,
            alertFailed |-> FALSE, alerts |-> {} ]

Init ==
    /\ website \in SiteTables
    /\ dropboxFile \in {NoFile} \cup StoredFiles
    /\ refCoordTargets \in RefCoordConfigs
    /\ localFile = NoFile
    /\ onlineTable = <<>>
    /\ gameTable = <<>>
    /\ aliased = FALSE
    /\ pc = "get_fromDropbox"
    /\ idx = 1
    /\ sendError = FALSE
    /\ unmatched = <<>>
    /\ shiftEvents = <<>>
    /\ refEvents = <<>>
    /\ merged = <<>>
    /\ sent = <<>>
    /\ persistedIn = <<>>
    /\ startFile = dropboxFile
    /\ wrote = FALSE
    /\ uploaded = FALSE
    /\ run = 1
    /\ prev = NoPrev
    /\ downloaded = FALSE
    /\ fetched = "no"
    /\ calls = <<>>
    /\ cnt = 0
    /\ exception = "none"
    /\ warned = <<>>

\* get_fromDropbox, the download succeeds: the stored file replaces self.file.
GetFromDropbox ==
    /\ pc = "get_fromDropbox"
    /\ dropboxFile # NoFile
    /\ localFile' = dropboxFile
    /\ pc' = "get_onlineTable"
    /\ downloaded' = TRUE
    /\ UNCHANGED reminderVars
    /\ UNCHANGED <<website, dropboxFile, onlineTable, gameTable, aliased, idx,
                   sendError, unmatched, shiftEvents, refEvents, merged, sent,
                   persistedIn, startFile, wrote, uploaded, run, prev,
                   refCoordTargets, fetched>>

\* get_fromDropbox, the download raises ApiError (no such file, or the service
\* refuses): the warning is logged and the run goes on.
GetFromDropboxApiError ==
    /\ pc = "get_fromDropbox"
    /\ pc' = "get_onlineTable"
    /\ UNCHANGED reminderVars
    /\ UNCHANGED <<website, dropboxFile, localFile, onlineTable, gameTable,
                   aliased, idx, sendError, unmatched, shiftEvents, refEvents,
                   merged, sent, persistedIn, startFile, wrote, uploaded, run,
                   prev, refCoordTargets, downloaded, fetched>>

\* get_fromDropbox, the download raises something else than ApiError (AuthError,
\* HttpError, a connection error): nothing catches it and the program ends.
GetFromDropboxFails ==
    /\ pc = "get_fromDropbox"
    /\ pc' = "aborted"
    /\ exception' = "download"
    /\ UNCHANGED <<calls, cnt, warned>>
    /\ UNCHANGED <<website, dropboxFile, localFile, onlineTable, gameTable,
                   aliased, idx, sendError, unmatched, shiftEvents, refEvents,
                   merged, sent, persistedIn, startFile, wrote, uploaded, run,
                   prev, refCoordTargets, downloaded, fetched>>

\* get_onlineTable, the site answers.
GetOnlineTable ==
    /\ pc = "get_onlineTable"
    /\ onlineTable' = Scrape(website)
    /\ pc' = "get_gameTable"
    /\ fetched' = "ok"
    /\ UNCHANGED reminderVars
    /\ UNCHANGED <<website, dropboxFile, localFile, gameTable, aliased, idx,
                   sendError, unmatched, shiftEvents, refEvents, merged, sent,
                   persistedIn, startFile, wrote, uploaded, run, prev,
                   refCoordTargets, downloaded>>

\* Faulty variant: the exception is swallowed and the run goes on.
GetOnlineTableFailsCaught ==
    /\ pc = "get_onlineTable"
    /\ pc' = "get_gameTable"
    /\ fetched' = "failed"
    /\ UNCHANGED reminderVars
    /\ UNCHANGED <<website, dropboxFile, localFile, onlineTable, gameTable,
                   aliased, idx, sendError, unmatched, shiftEvents, refEvents,
                   merged, sent, persistedIn, startFile, wrote, uploaded, run,
                   prev, refCoordTargets, downloaded>>

\* get_onlineTable, requests.post or pd.read_html raises: nothing catches it
\* and the program ends.
GetOnlineTableFails ==
    /\ pc = "get_onlineTable"
    /\ pc' = "aborted"
    /\ fetched' = "failed"
    /\ exception' = "fetch"
    /\ UNCHANGED <<calls, cnt, warned>>
    /\ UNCHANGED <<website, dropboxFile, localFile, onlineTable, gameTable,
                   aliased, idx, sendError, unmatched, shiftEvents, refEvents,
                   merged, sent, persistedIn, startFile, wrote, uploaded, run,
                   prev, refCoordTargets, downloaded>>

\* get_gameTable: the local file is read, or (OSError) self.gameTable becomes
\* the object self.onlineTable.
GetGameTable ==
    /\ pc = "get_gameTable"
    /\ IF localFile # NoFile
       THEN gameTable' = ReadExcel(localFile.rows) /\ aliased' = FALSE
       ELSE gameTable' = onlineTable /\ aliased' = TRUE
    /\ persistedIn' = gameTable'
    /\ pc' = "merge_tables"
    /\ idx' = 1
    /\ sendError' = FALSE
    /\ UNCHANGED reminderVars
    /\ UNCHANGED <<website, dropboxFile, localFile, onlineTable, unmatched,
                   shiftEvents, refEvents, merged, sent, startFile, wrote,
                   uploaded, run, prev, refCoordTargets, downloaded, fetched>>

----------------------------------------------------------------------------
(* merge_tables *)

\* Faulty variant: the slice starts one column late.
AssignVolunteersFromJMV(table, game, judges) ==
    [ i \in 1..Len(table) |->
        IF table[i]["colNr"] = game
        THEN [ c \in DOMAIN table[i] |->
                 IF c \in SliceFrom("colJMV") THEN judges[c] ELSE table[i][c] ]
        ELSE table[i] ]

\* onlineTable.loc[onlineTable[colNr] == game, colJTeam:] = judges.values[0]
AssignVolunteers(table, game, judges) ==
    [ i \in 1..Len(table) |->
        IF table[i]["colNr"] = game
        THEN [ c \in DOMAIN table[i] |->
                 IF c \in SliceFrom("colJTeam") THEN judges[c] ELSE table[i][c] ]
        ELSE table[i] ]

\* Faulty variant: the category is not looked at.
NotExemptAlways(table, game) == TRUE

\* The except branch: the game counts as missing unless its category is "GE".
NotExempt(table, game) == table[First(Match(table, game))]["colAK"] # "GE"

NoSend == [ indexError |-> FALSE, keyError |-> FALSE, msgs |-> <<>> ]

ShiftEvent(game, old, new) ==
    [ game |-> game, oldDate |-> old["colDate"], oldTime |-> old["colTime"],
      newDate |-> new["colDate"], newTime |-> new["colTime"] ]

RefEvent(game, new) ==
    [ game |-> game, date |-> new["colDate"], time |-> new["colTime"] ]

\* One pass of the loop for a game self.gameTable does not hold: the first
\* lookup raises IndexError (line 353).
MergeGameMissing ==
    /\ pc = "merge_tables"
    /\ idx <= Len(onlineTable)
    /\ LET game == onlineTable[idx]["colNr"] IN
       /\ Match(gameTable, game) = {}
       /\ IF NotExempt(onlineTable, game)
          THEN sendError' = TRUE /\ unmatched' = Append(unmatched, game)
          ELSE UNCHANGED <<sendError, unmatched>>
    /\ idx' = idx + 1
    /\ UNCHANGED reminderVars
    /\ UNCHANGED <<website, dropboxFile, localFile, onlineTable, gameTable,
                   aliased, pc, shiftEvents, refEvents, merged, sent,
                   persistedIn, startFile, wrote, uploaded, run, prev,
                   refCoordTargets, downloaded, fetched>>

\* Faulty variant: the table is written although a handler raised.
MergeGameFoundWritten ==
    /\ pc = "merge_tables"
    /\ idx <= Len(onlineTable)
    /\ LET game == onlineTable[idx]["colNr"] IN
       /\ Match(gameTable, game) # {}
       /\ LET old == gameTable[First(Match(gameTable, game))]
              online2 == AssignVolunteers(onlineTable, game, old)
              game2 == IF aliased THEN online2 ELSE gameTable
              new == online2[First(Match(online2, game))]
              shift == datum_shift_handler(old["colDate"], old["colTime"],
                                           new["colDate"], new["colTime"])
              sh == IF shift THEN send_ShfitNotification(game2, game) ELSE NoSend
              ref == ~sh.indexError
                     /\ no_referee_handler(old["colScore"], new["colScore"])
              rf == IF ref THEN send_RefNotification(refCoordTargets, game) ELSE NoSend
              attempts == sh.msgs \o rf.msgs
          IN \E k \in 0..Len(attempts) :
               LET raised == k < Len(attempts) \/ rf.keyError
                   refCalled == ref /\ k >= Len(sh.msgs)
               IN /\ onlineTable' = online2
                  /\ gameTable' = game2
                  /\ merged' = Append(merged, game)
                  /\ shiftEvents' = IF shift
                                    THEN Append(shiftEvents, ShiftEvent(game, old, new))
                                    ELSE shiftEvents
                  /\ refEvents' = IF refCalled
                                  THEN Append(refEvents, RefEvent(game, new))
                                  ELSE refEvents
                  /\ sent' = sent \o SubSeq(attempts, 1, k)
                  /\ IF raised
                     THEN /\ pc' = "aborted"
                          /\ exception' = IF k < Len(attempts) THEN "send"
                                          ELSE "KeyError"
                          /\ localFile' = File(ToExcel(online2))
                          /\ wrote' = TRUE
                          /\ UNCHANGED <<idx, sendError, unmatched>>
                     ELSE /\ pc' = pc
                          /\ exception' = exception
                          /\ idx' = idx + 1
                          /\ UNCHANGED <<localFile, wrote>>
                          /\ IF sh.indexError /\ NotExempt(online2, game)
                             THEN /\ sendError' = TRUE
                                  /\ unmatched' = Append(unmatched, game)
                             ELSE UNCHANGED <<sendError, unmatched>>
    /\ UNCHANGED <<calls, cnt, warned>>
    /\ UNCHANGED <<website, dropboxFile, aliased, persistedIn, startFile,
                   uploaded, run, prev, refCoordTargets, downloaded, fetched>>

\* One pass of the loop for a game self.gameTable holds: the old values are
\* saved, the volunteer columns assigned, and the two handlers called.  k is the
\* number of sends that succeed; send k+1, if there is one, raises.
MergeGameFound ==
    /\ pc = "merge_tables"
    /\ idx <= Len(onlineTable)
    /\ LET game == onlineTable[idx]["colNr"] IN
       /\ Match(gameTable, game) # {}
       /\ LET old == gameTable[First(Match(gameTable, game))]
              online2 == AssignVolunteers(onlineTable, game, old)
              game2 == IF aliased THEN online2 ELSE gameTable
              new == online2[First(Match(online2, game))]
              shift == datum_shift_handler(old["colDate"], old["colTime"],
                                           new["colDate"], new["colTime"])
              sh == IF shift THEN send_ShfitNotification(game2, game) ELSE NoSend
              ref == ~sh.indexError
                     /\ no_referee_handler(old["colScore"], new["colScore"])
              rf == IF ref THEN send_RefNotification(refCoordTargets, game) ELSE NoSend
              attempts == sh.msgs \o rf.msgs
          IN \E k \in 0..Len(attempts) :
               LET raised == k < Len(attempts) \/ rf.keyError
                   refCalled == ref /\ k >= Len(sh.msgs)
               IN /\ onlineTable' = online2
                  /\ gameTable' = game2
                  /\ merged' = Append(merged, game)
                  /\ shiftEvents' = IF shift
                                    THEN Append(shiftEvents, ShiftEvent(game, old, new))
                                    ELSE shiftEvents
                  /\ refEvents' = IF refCalled
                                  THEN Append(refEvents, RefEvent(game, new))
                                  ELSE refEvents
                  /\ sent' = sent \o SubSeq(attempts, 1, k)
                  /\ IF raised
                     THEN /\ pc' = "aborted"
                          /\ exception' = IF k < Len(attempts) THEN "send"
                                          ELSE "KeyError"
                          /\ UNCHANGED <<idx, sendError, unmatched>>
                     ELSE /\ pc' = pc
                          /\ exception' = exception
                          /\ idx' = idx + 1
                          /\ IF sh.indexError /\ NotExempt(online2, game)
                             THEN /\ sendError' = TRUE
                                  /\ unmatched' = Append(unmatched, game)
                             ELSE UNCHANGED <<sendError, unmatched>>
    /\ UNCHANGED <<calls, cnt, warned>>
    /\ UNCHANGED <<website, dropboxFile, localFile, aliased, persistedIn,
                   startFile, wrote, uploaded, run, prev, refCoordTargets, downloaded, fetched>>

OperatorMail ==
    [ cat |-> "error", game |-> 0, task |-> "operator", to |-> "mail_ID", via |-> "mail" ]

\* Faulty variant: line 408 left out.
AdoptOnlineNot(game, online) == game

\* Faulty variant: the persisted rows of games no longer listed are kept.
AdoptOnlineKeepOld(game, online) ==
    online \o SelectSeq(game, LAMBDA r : Match(online, r["colNr"]) = {})

\* Line 408: self.gameTable = self.onlineTable.
AdoptOnline(game, online) == online

\* After the loop: the error mail if sendError, then line 408.
MergeFinish ==
    /\ pc = "merge_tables"
    /\ idx > Len(onlineTable)
    /\ sent' = IF sendError THEN Append(sent, OperatorMail) ELSE sent
    /\ gameTable' = AdoptOnline(gameTable, onlineTable)
    /\ aliased' = TRUE
    /\ pc' = "write_toXlsx"
    /\ UNCHANGED reminderVars
    /\ UNCHANGED <<website, dropboxFile, localFile, onlineTable, idx, sendError,
                   unmatched, shiftEvents, refEvents, merged, persistedIn,
                   startFile, wrote, uploaded, run, prev, refCoordTargets, downloaded, fetched>>

\* After the loop, send_Mail of the error mail raises.
MergeFinishMailFails ==
    /\ pc = "merge_tables"
    /\ idx > Len(onlineTable)
    /\ sendError
    /\ pc' = "aborted"
    /\ exception' = "send"
    /\ UNCHANGED <<calls, cnt, warned>>
    /\ UNCHANGED <<website, dropboxFile, localFile, onlineTable, gameTable,
                   aliased, idx, sendError, unmatched, shiftEvents, refEvents,
                   merged, sent, persistedIn, startFile, wrote, uploaded, run,
                   prev, refCoordTargets, downloaded, fetched>>

----------------------------------------------------------------------------
(* Saving and uploading *)

\* write_toXlsx: self.gameTable goes to the local file.
WriteToXlsx ==
    /\ pc = "write_toXlsx"
    /\ localFile' = File(ToExcel(gameTable))
    /\ wrote' = TRUE
    /\ pc' = "upload_toDropbox"
    /\ UNCHANGED reminderVars
    /\ UNCHANGED <<website, dropboxFile, onlineTable, gameTable, aliased, idx,
                   sendError, unmatched, shiftEvents, refEvents, merged, sent,
                   persistedIn, startFile, uploaded, run, prev, refCoordTargets, downloaded, fetched>>

\* upload_toDropbox: the local file overwrites the stored file and is removed.
UploadToDropbox ==
    /\ pc = "upload_toDropbox"
    /\ dropboxFile' = localFile
    /\ localFile' = NoFile
    /\ uploaded' = TRUE
    /\ pc' = "send_Notifications"
    /\ UNCHANGED reminderVars
    /\ UNCHANGED <<website, onlineTable, gameTable, aliased, idx, sendError,
                   unmatched, shiftEvents, refEvents, merged, sent, persistedIn,
                   startFile, wrote, run, prev, refCoordTargets, downloaded, fetched>>

\* upload_toDropbox, files_upload raises: the program ends, the local file stays.
UploadToDropboxFails ==
    /\ pc = "upload_toDropbox"
    /\ pc' = "aborted"
    /\ exception' = "upload"
    /\ UNCHANGED <<calls, cnt, warned>>
    /\ UNCHANGED <<website, dropboxFile, localFile, onlineTable, gameTable,
                   aliased, idx, sendError, unmatched, shiftEvents, refEvents,
                   merged, sent, persistedIn, startFile, wrote, uploaded, run,
                   prev, refCoordTargets, downloaded, fetched>>

----------------------------------------------------------------------------
(* The notifications of the main program *)

\* tomorrow.strftime and nextWeek.strftime for the day of the runs, 02.05.2025.
strTomorrow == "03.05.2025"
strNextWeek == "09.05.2025"

\* gameTable[colDate].str.contains(date).any()
OnDate(table, date) == \E i \in 1..Len(table) : table[i]["colDate"] = date

\* Faulty variant: the date is not looked at.
NoteTableAnyDate(table, date) ==
    SelectSeq(table, LAMBDA r : r["colGuest"] # "spielfrei")

\* noteTable of the three notification methods: the rows of the date whose
\* guest is not "spielfrei".
NoteTable(table, date) ==
    SelectSeq(table, LAMBDA r : r["colDate"] = date /\ r["colGuest"] # "spielfrei")

RECURSIVE Concat(_, _)
Concat(f, n) == IF n = 0 THEN <<>> ELSE Concat(f, n - 1) \o f[n]

\* send_Notifications' receivers of a row, and the entry of the liaison (MV).
TaskReceivers(row) ==
    << [name |-> row["colJudge1"], mail |-> row["colMailJudge1"], task |-> "colJudge1"],
       [name |-> row["colJudge2"], mail |-> row["colMailJudge2"], task |-> "colJudge2"],
       [name |-> row["colShop1"], mail |-> row["colMailShop1"], task |-> "colShop1"],
       [name |-> row["colShop2"], mail |-> row["colMailShop2"], task |-> "colShop2"],
       [name |-> row["colSecurity"], mail |-> row["colMailSecurity"], task |-> "colSecurity"],
       [name |-> row["colCleaning"], mail |-> row["colMailCleaning"], task |-> "colCleaning"] >>

\* Faulty variant: the method returns at the first receiver without a valid
\* contact.
send_NotificationsStopAtWarning(table, date) ==
    LET note == NoteTable(table, date)
        perRow == [ i \in 1..Len(note) |->
                     LET row == note[First(Match(note, note[i]["colNr"]))]
                         rcv == TaskReceivers(row)
                     IN [ j \in 1..Len(rcv) |->
                            Message("task", row["colNr"], rcv[j].task, rcv[j].mail) ]
                        \o << Message("task", row["colNr"], "MV", row["colMailJMV"]) >> ]
        all == Concat(perRow, Len(note))
        bad == { i \in 1..Len(all) : all[i].via = "warning" }
    IN IF bad = {} THEN all ELSE SubSeq(all, 1, First(bad))

\* send_Notifications(date): the receivers it passes, in its order, each with
\* the branch it takes.
send_Notifications(table, date) ==
    LET note == NoteTable(table, date)
        perRow == [ i \in 1..Len(note) |->
                     LET row == note[First(Match(note, note[i]["colNr"]))]
                         rcv == TaskReceivers(row)
                     IN [ j \in 1..Len(rcv) |->
                            Message("task", row["colNr"], rcv[j].task, rcv[j].mail) ]
                        \o << Message("task", row["colNr"], "MV", row["colMailJMV"]) >> ]
    IN Concat(perRow, Len(note))

\* Faulty variant: the shop jobs of the first game are not left out.
PreReceiversAllGames(row, gameNr) ==
    << [name |-> row["colJudge1"], mail |-> row["colMailJudge1"], task |-> "colJudge1"],
       [name |-> row["colJudge2"], mail |-> row["colMailJudge2"], task |-> "colJudge2"],
       [name |-> row["colShop1"], mail |-> row["colMailShop1"], task |-> "colShop1"],
       [name |-> row["colShop2"], mail |-> row["colMailShop2"], task |-> "colShop2"],
       [name |-> row["colSecurity"], mail |-> row["colMailSecurity"], task |-> "colSecurity"],
       [name |-> row["colCleaning"], mail |-> row["colMailCleaning"], task |-> "colCleaning"] >>

\* send_PreNotifications' receivers of a row: the shop jobs only from the
\* second game of the day on (gameNr > 0).
PreReceivers(row, gameNr) ==
    << [name |-> row["colJudge1"], mail |-> row["colMailJudge1"], task |-> "colJudge1"],
       [name |-> row["colJudge2"], mail |-> row["colMailJudge2"], task |-> "colJudge2"] >>
    \o (IF gameNr > 0
        THEN << [name |-> row["colShop1"], mail |-> row["colMailShop1"], task |-> "colShop1"],
                [name |-> row["colShop2"], mail |-> row["colMailShop2"], task |-> "colShop2"] >>
        ELSE <<>>)
    \o << [name |-> row["colSecurity"], mail |-> row["colMailSecurity"], task |-> "colSecurity"],
          [name |-> row["colCleaning"], mail |-> row["colMailCleaning"], task |-> "colCleaning"] >>

send_PreNotifications(table, date) ==
    LET note == NoteTable(table, date)
        perRow == [ i \in 1..Len(note) |->
                     LET row == note[First(Match(note, note[i]["colNr"]))]
                         rcv == PreReceivers(row, i - 1)
                     IN [ j \in 1..Len(rcv) |->
                            Message("pre", row["colNr"], rcv[j].task, rcv[j].mail) ] ]
    IN Concat(perRow, Len(note))

\* send_ServiceNotifications' receivers: the two shop jobs of a row, each with
\* the other one's name as partner.
ServiceReceivers(row) ==
    << [name |-> row["colShop1"], mail |-> row["colMailShop1"], task |-> "colShop1",
        partner |-> row["colShop2"]],
       [name |-> row["colShop2"], mail |-> row["colMailShop2"], task |-> "colShop2",
        partner |-> row["colShop1"]] >>

ServiceMessage(game, r) ==
    [ cat |-> "service", game |-> game, task |-> r.task, to |-> r.mail,
      via |-> Transport(r.mail), partner |-> r.partner ]

\* send_ServiceNotifications(date): [indexError, entries].  Line 772 takes
\* .values[0] of noteTable's game numbers: IndexError when noteTable is empty.
send_ServiceNotifications(table, date) ==
    LET note == NoteTable(table, date) IN
    IF note = <<>>
    THEN [ indexError |-> TRUE, entries |-> <<>> ]
    ELSE LET game == note[1]["colNr"]
             row == note[First(Match(note, game))]
             rcv == ServiceReceivers(row)
         IN [ indexError |-> FALSE,
              entries |-> [ j \in 1..Len(rcv) |-> ServiceMessage(game, rcv[j]) ] ]

Warnings(entries) == SelectSeq(entries, LAMBDA m : m.via = "warning")

\* The receivers a method has passed when k of its sends succeeded: all of
\* them, or those before send k+1, which raised.
Handled(entries, k) ==
    LET disp == { i \in 1..Len(entries) : entries[i].via \in {"mail", "sms"} } IN
    IF k >= Cardinality(disp) THEN entries
    ELSE SubSeq(entries, 1,
                (CHOOSE i \in disp : Cardinality({ j \in disp : j < i }) = k) - 1)

\* Faulty variant: a send that raises is caught and the main program goes on.
SendNotificationsCaught ==
    /\ pc = "send_Notifications"
    /\ IF OnDate(gameTable, strTomorrow)
       THEN LET entries == send_Notifications(gameTable, strTomorrow)
                n == Len(Dispatched(entries))
            IN \E k \in 0..n :
                 /\ calls' = Append(calls, "send_Notifications")
                 /\ sent' = sent \o Dispatched(Handled(entries, k))
                 /\ warned' = warned \o Warnings(Handled(entries, k))
                 /\ pc' = "send_RefNotification"
                 /\ exception' = IF k < n THEN "send" ELSE exception
                 /\ cnt' = k
       ELSE /\ pc' = "send_RefNotification"
            /\ UNCHANGED <<sent, calls, cnt, exception, warned>>
    /\ UNCHANGED <<website, dropboxFile, localFile, onlineTable, gameTable,
                   aliased, idx, sendError, unmatched, shiftEvents, refEvents,
                   merged, persistedIn, startFile, wrote, uploaded, run, prev,
                   refCoordTargets, downloaded, fetched>>

\* Lines 1212-1219: the task notifications for tomorrow's games.
SendNotifications ==
    /\ pc = "send_Notifications"
    /\ IF OnDate(gameTable, strTomorrow)
       THEN LET entries == send_Notifications(gameTable, strTomorrow)
                n == Len(Dispatched(entries))
            IN \E k \in 0..n :
                 /\ calls' = Append(calls, "send_Notifications")
                 /\ sent' = sent \o Dispatched(Handled(entries, k))
                 /\ warned' = warned \o Warnings(Handled(entries, k))
                 /\ IF k < n
                    THEN pc' = "aborted" /\ exception' = "send" /\ cnt' = 0
                    ELSE pc' = "send_RefNotification" /\ exception' = exception /\ cnt' = n
       ELSE /\ pc' = "send_RefNotification"
            /\ UNCHANGED <<sent, calls, cnt, exception, warned>>
    /\ UNCHANGED <<website, dropboxFile, localFile, onlineTable, gameTable,
                   aliased, idx, sendError, unmatched, shiftEvents, refEvents,
                   merged, persistedIn, startFile, wrote, uploaded, run, prev,
                   refCoordTargets, downloaded, fetched>>

\* The condition of line 1222: a game of tomorrow whose score cell contains "Heim".
HomeRefereeTomorrow(table) ==
    \E i \in 1..Len(table) :
        table[i]["colDate"] = strTomorrow /\ ContainsHeim(table[i]["colScore"])

\* Lines 1221-1229: send_RefNotification(strTomorrow) passes one argument to a
\* method that takes game, date and time: TypeError, which nothing catches.
SendRefNotification ==
    /\ pc = "send_RefNotification"
    /\ IF HomeRefereeTomorrow(gameTable)
       THEN /\ calls' = Append(calls, "send_RefNotification")
            /\ pc' = "aborted"
            /\ exception' = "TypeError"
            /\ cnt' = 0
       ELSE /\ pc' = "send_ServiceNotifications"
            /\ UNCHANGED <<calls, cnt, exception>>
    /\ UNCHANGED <<website, dropboxFile, localFile, onlineTable, gameTable,
                   aliased, idx, sendError, unmatched, shiftEvents, refEvents,
                   merged, sent, persistedIn, startFile, wrote, uploaded, run,
                   prev, refCoordTargets, downloaded, fetched, warned>>

\* Lines 1231-1239: the early shop notifications and the early task
\* notifications for the games in a week; cnt keeps the last return value.
SendNextWeek ==
    /\ pc = "send_ServiceNotifications"
    /\ IF OnDate(gameTable, strNextWeek)
       THEN LET service == send_ServiceNotifications(gameTable, strNextWeek)
                pre == send_PreNotifications(gameTable, strNextWeek)
                entries == service.entries \o pre
                s == Len(Dispatched(service.entries))
                n == Len(Dispatched(entries))
            IN IF service.indexError
               THEN /\ calls' = Append(calls, "send_ServiceNotifications")
                    /\ pc' = "aborted"
                    /\ exception' = "IndexError"
                    /\ cnt' = 0
                    /\ UNCHANGED <<sent, warned>>
               ELSE \E k \in 0..n :
                      /\ calls' = calls \o << "send_ServiceNotifications" >>
                                   \o (IF k >= s THEN << "send_PreNotifications" >>
                                       ELSE <<>>)
                      /\ sent' = sent \o Dispatched(Handled(entries, k))
                      /\ warned' = warned \o Warnings(Handled(entries, k))
                      /\ IF k < n
                         THEN /\ pc' = "aborted"
                              /\ exception' = "send"
                              /\ cnt' = IF k >= s THEN s ELSE 0
                         ELSE /\ pc' = "finished"
                              /\ exception' = exception
                              /\ cnt' = n - s
       ELSE /\ pc' = "finished"
            /\ UNCHANGED <<sent, calls, cnt, exception, warned>>
    /\ UNCHANGED <<website, dropboxFile, localFile, onlineTable, gameTable,
                   aliased, idx, sendError, unmatched, shiftEvents, refEvents,
                   merged, persistedIn, startFile, wrote, uploaded, run, prev,
                   refCoordTargets, downloaded, fetched>>

----------------------------------------------------------------------------
(* The next day *)

Games(events) == { events[i].game : i \in 1..Len(events) }

\* What the site may list a day later: the same games, or one game changed,
\* added or withdrawn.
Differing(t, u) ==
    { g \in SeqRange(GameNumbers(t)) \cup SeqRange(GameNumbers(u)) :
        \/ Match(t, g) = {}
        \/ Match(u, g) = {}
        \/ t[First(Match(t, g))] # u[First(Match(u, g))] }

SiteChanges(t) == { u \in SiteTables : Cardinality(Differing(t, u)) <= 1 }

\* The run ended inside the loop of merge_tables, in a handler whose send
\* raised (lines 382-383).
AlertFailed ==
    /\ pc = "aborted"
    /\ exception = "send"
    /\ calls = <<>>
    /\ idx <= Len(onlineTable)

\* The scheduler starts the program again; the site may list something else.
NextRun ==
    /\ pc \in {"finished", "aborted"}
    /\ run < MaxRuns
    /\ run' = run + 1
    /\ website' \in SiteChanges(website)
    /\ prev' = [ ran |-> TRUE, site |-> website, shift |-> Games(shiftEvents),
                 ref |-> Games(refEvents), unmatched |-> SeqRange(unmatched),
                 uploaded |-> uploaded, downloaded |-> downloaded,
                 alertFailed |-> AlertFailed,
                 alerts |-> IF AlertFailed THEN SeqRange(sent) ELSE {} ]
    /\ onlineTable' = <<>>
    /\ gameTable' = <<>>
    /\ aliased' = FALSE
    /\ pc' = "get_fromDropbox"
    /\ idx' = 1
    /\ sendError' = FALSE
    /\ unmatched' = <<>>
    /\ shiftEvents' = <<>>
    /\ refEvents' = <<>>
    /\ merged' = <<>>
    /\ sent' = <<>>
    /\ persistedIn' = <<>>
    /\ startFile' = dropboxFile
    /\ wrote' = FALSE
    /\ uploaded' = FALSE
    /\ downloaded' = FALSE
    /\ fetched' = "no"
    /\ calls' = <<>>
    /\ cnt' = 0
    /\ exception' = "none"
    /\ warned' = <<>>
    /\ UNCHANGED <<dropboxFile, localFile, refCoordTargets>>

Next ==
    \/ GetFromDropbox
    \/ GetFromDropboxApiError
    \/ GetFromDropboxFails
    \/ GetOnlineTable
    \/ GetOnlineTableFails
    \/ GetGameTable
    \/ MergeGameMissing
    \/ MergeGameFound
    \/ MergeFinish
    \/ MergeFinishMailFails
    \/ WriteToXlsx
    \/ UploadToDropbox
    \/ UploadToDropboxFails
    \/ SendNotifications
    \/ SendRefNotification
    \/ SendNextWeek
    \/ NextRun

Spec == Init /\ [][Next]_vars

----------------------------------------------------------------------------
(* send_Article *)

\* The date send_Article is called for, a Saturday.
ArticleDate == "10.05.2025"

\* Python's  a or b  for strings: a unless it is empty.
PyOr(a, b) == IF a # "" THEN a ELSE b

\* strTime[i].strip(" v").strip(" t") over the times of the model.
Strip(time) ==
    IF time \in {"18:00 v", "18:00 t", " 18:00"} THEN "18:00" ELSE time

\* Lines 452-460: the name of the team in the article.
ArticleTeam(teamRaw) ==
    IF teamRaw = "F" THEN "Damen"
    ELSE IF teamRaw = "M" THEN "Herren"
    ELSE teamRaw

\* Faulty variant: the two flags are not looked at.
RECURSIVE ArticleLinesNoFlags(_, _, _, _)
ArticleLinesNoFlags(note, i, tournamentMI, tournamentGE) ==
    IF i > Len(note) THEN <<>>
    ELSE LET row == note[First(Match(note, note[i]["colNr"]))]
             team == ArticleTeam(row["colAK"])
             time == Strip(row["colTime"])
         IN IF "MI" = team
            THEN << [kind |-> "MI", game |-> note[i]["colNr"], time |-> time] >>
                 \o ArticleLinesNoFlags(note, i + 1, TRUE, tournamentGE)
            ELSE IF "GE" = team
            THEN << [kind |-> "GE", game |-> note[i]["colNr"], time |-> time] >>
                 \o ArticleLinesNoFlags(note, i + 1, tournamentMI, TRUE)
            ELSE << [kind |-> "game", game |-> note[i]["colNr"], time |-> time,
                     team |-> team, home |-> row["colHome"],
                     guest |-> row["colGuest"]] >>
                 \o ArticleLinesNoFlags(note, i + 1, tournamentMI, tournamentGE)

\* Lines 477-510: the lines of the schedule, from game i of noteTable on.
RECURSIVE ArticleLines(_, _, _, _)
ArticleLines(note, i, tournamentMI, tournamentGE) ==
    IF i > Len(note) THEN <<>>
    ELSE LET row == note[First(Match(note, note[i]["colNr"]))]
             team == ArticleTeam(row["colAK"])
             time == Strip(row["colTime"])
         IN IF "MI" = team /\ ~tournamentMI
            THEN << [kind |-> "MI", game |-> note[i]["colNr"], time |-> time] >>
                 \o ArticleLines(note, i + 1, TRUE, tournamentGE)
            ELSE IF "GE" = team /\ ~tournamentGE
            THEN << [kind |-> "GE", game |-> note[i]["colNr"], time |-> time] >>
                 \o ArticleLines(note, i + 1, tournamentMI, TRUE)
            ELSE IF PyOr("GE", "MI") # team
            THEN << [kind |-> "game", game |-> note[i]["colNr"], time |-> time,
                     team |-> team, home |-> row["colHome"],
                     guest |-> row["colGuest"]] >>
                 \o ArticleLines(note, i + 1, tournamentMI, tournamentGE)
            ELSE ArticleLines(note, i + 1, tournamentMI, tournamentGE)

\* send_Article(date, day, articleDate): the schedule of the mail.
send_Article(table, date) == ArticleLines(NoteTable(table, date), 1, FALSE, FALSE)

ArticleMail(lines) ==
    [ cat |-> "article", game |-> 0, task |-> "newspaper",
      to |-> "mailAddrNewspaper", via |-> "mail", schedule |-> lines ]

\* The games of the tables send_Article is applied to: every category on the
\* date, a time with a suffix, a game of another date and a "spielfrei" row.
ArticleGames(i) ==
    LET b == [BaseGame(i) EXCEPT !.colDate = ArticleDate] IN
    { b,
      [b EXCEPT !.colAK = "F", !.colTime = "18:00 v"],
      [b EXCEPT !.colAK = "MI"],
      [b EXCEPT !.colAK = "GE"],
      [b EXCEPT !.colAK = "mB"],
      [b EXCEPT !.colGuest = "spielfrei"],
      BaseGame(i) }

RECURSIVE ArticleTablesFrom(_, _)
ArticleTablesFrom(i, n) ==
    IF i > n THEN { <<>> }
    ELSE { <<g>> \o t : g \in ArticleGames(i), t \in ArticleTablesFrom(i + 1, n) }

ArticleTables ==
    { Scrape(t) : t \in UNION { ArticleTablesFrom(1, n) : n \in 0..MaxArticleGames } }

\* The program holds a merged table and is about to call send_Article.
ArticleInit ==
    /\ gameTable \in ArticleTables
    /\ onlineTable = gameTable
    /\ aliased = TRUE
    /\ pc = "send_Article"
    /\ website = <<>>
    /\ dropboxFile = NoFile
    /\ refCoordTargets = <<>>
    /\ localFile = NoFile
    /\ idx = 1
    /\ sendError = FALSE
    /\ unmatched = <<>>
    /\ shiftEvents = <<>>
    /\ refEvents = <<>>
    /\ merged = <<>>
    /\ sent = <<>>
    /\ persistedIn = <<>>
    /\ startFile = NoFile
    /\ wrote = FALSE
    /\ uploaded = FALSE
    /\ run = 1
    /\ prev = NoPrev
    /\ downloaded = FALSE
    /\ fetched = "no"
    /\ calls = <<>>
    /\ cnt = 0
    /\ exception = "none"
    /\ warned = <<>>

\* send_Article returns: the mail is sent and the number of lines returned.
SendArticle ==
    /\ pc = "send_Article"
    /\ LET lines == send_Article(gameTable, ArticleDate) IN
       /\ sent' = Append(sent, ArticleMail(lines))
       /\ cnt' = Len(lines)
    /\ calls' = Append(calls, "send_Article")
    /\ pc' = "finished"
    /\ UNCHANGED <<website, dropboxFile, localFile, onlineTable, gameTable,
                   aliased, idx, sendError, unmatched, shiftEvents, refEvents,
                   merged, persistedIn, startFile, wrote, uploaded, run, prev,
                   refCoordTargets, downloaded, fetched, exception, warned>>

\* send_Article, send_Mail raises (line 514).
SendArticleFails ==
    /\ pc = "send_Article"
    /\ calls' = Append(calls, "send_Article")
    /\ pc' = "aborted"
    /\ exception' = "send"
    /\ UNCHANGED <<website, dropboxFile, localFile, onlineTable, gameTable,
                   aliased, idx, sendError, unmatched, shiftEvents, refEvents,
                   merged, sent, persistedIn, startFile, wrote, uploaded, run,
                   prev, refCoordTargets, downloaded, fetched, cnt, warned>>

ArticleNext == SendArticle \/ SendArticleFails

ArticleSpec == ArticleInit /\ [][ArticleNext]_vars

----------------------------------------------------------------------------
(* Properties of merge_tables *)

\* The authoritative table of the run: what get_onlineTable scraped.
Authoritative == Scrape(website)

\* merge_tables has returned in this run.
MergeDone ==
    \/ pc \in {"write_toXlsx", "upload_toDropbox", "send_Notifications",
              "send_RefNotification", "send_ServiceNotifications", "finished"}
    \/ pc = "aborted" /\ wrote

RowOf(table, g) == table[First(Match(table, g))]
InBoth(g) == Match(persistedIn, g) # {} /\ Match(Authoritative, g) # {}
Count(seq, x) == Cardinality({ i \in 1..Len(seq) : seq[i] = x })
OperatorMails == Count(sent, OperatorMail)

\* C1: after merge_tables, every game that is in the scraped and in the
\* persisted table has a merged row whose volunteer cells are the persisted
\* row's and whose schedule cells are the scraped row's.
C1_MergePreservesVolunteers ==
    MergeDone =>
        \A g \in SeqRange(GameNumbers(Authoritative)) :
            InBoth(g) =>
                /\ Match(gameTable, g) # {}
                /\ \A c \in VolunteerCols :
                       RowOf(gameTable, g)[c] = RowOf(persistedIn, g)[c]
                /\ \A c \in ScheduleCols :
                       RowOf(gameTable, g)[c] = RowOf(Authoritative, g)[c]

\* A merged game with filled volunteer cells whose schedule changed.
C1_Witness ==
    /\ MergeDone
    /\ \E g \in SeqRange(GameNumbers(Authoritative)) :
          /\ InBoth(g)
          /\ RowOf(persistedIn, g)["colJudge1"] = "Alice"
          /\ RowOf(gameTable, g)["colJudge1"] = "Alice"
          /\ RowOf(persistedIn, g)["colHall"] # RowOf(Authoritative, g)["colHall"]

\* C2: merging a table with itself raises no shift alert and no referee alert,
\* reports no game as missing, and leaves the table as it was.
C2_SelfMergeIsIdentity ==
    (persistedIn = Authoritative /\ fetched = "ok") =>
        /\ shiftEvents = <<>>
        /\ refEvents = <<>>
        /\ unmatched = <<>>
        /\ ~sendError
        /\ sent = <<>>
        /\ MergeDone => gameTable = Authoritative

\* A table of games was merged with itself.
C2_Witness ==
    /\ MergeDone
    /\ persistedIn = Authoritative
    /\ Len(Authoritative) >= 2
    /\ merged = GameNumbers(Authoritative)

\* C3: a scraped game that the persisted table lacks is reported exactly once
\* when its category is not "GE"; a game of category "GE" is never reported.
C3_UnmatchedDetection ==
    /\ \A i \in 1..Len(unmatched) :
           RowOf(Authoritative, unmatched[i])["colAK"] # "GE"
    /\ MergeDone =>
           \A g \in SeqRange(GameNumbers(Authoritative)) :
               (Match(persistedIn, g) = {} /\ RowOf(Authoritative, g)["colAK"] # "GE")
                   => Count(unmatched, g) = 1

\* A missing game was reported while a missing "GE" game was not.
C3_Witness ==
    /\ MergeDone
    /\ \E g, h \in SeqRange(GameNumbers(Authoritative)) :
          /\ Match(persistedIn, g) = {}
          /\ Match(persistedIn, h) = {}
          /\ RowOf(Authoritative, h)["colAK"] = "GE"
          /\ Count(unmatched, g) = 1
          /\ Count(unmatched, h) = 0

SameDateTime(t, u, g) ==
    /\ Match(t, g) # {}
    /\ Match(u, g) # {}
    /\ RowOf(t, g)["colDate"] = RowOf(u, g)["colDate"]
    /\ RowOf(t, g)["colTime"] = RowOf(u, g)["colTime"]

\* C4: when the previous run raised a shift alert for a game and stored its
\* merged table, and the site lists the game with the same date and time
\* again, this run raises no shift alert for the game.
C4_ShiftDebounce ==
    (prev.ran /\ prev.uploaded) =>
        \A g \in prev.shift :
            SameDateTime(prev.site, website, g) => g \notin Games(shiftEvents)

\* The second run merged the shifted game from the stored file without an alert.
C4_Witness ==
    /\ MergeDone
    /\ prev.ran /\ prev.uploaded /\ downloaded
    /\ \E g \in prev.shift :
          /\ SameDateTime(prev.site, website, g)
          /\ g \in SeqRange(merged)
          /\ g \notin Games(shiftEvents)

\* C5: for every matched game the referee alert is raised if and only if the
\* scraped refereeStatus differs from the persisted one and contains "Heim".
C5_RefereeAlertIff ==
    MergeDone =>
        \A g \in SeqRange(merged) :
            g \in Games(refEvents)
                <=> /\ RowOf(Authoritative, g)["colScore"] # RowOf(persistedIn, g)["colScore"]
                    /\ ContainsHeim(RowOf(Authoritative, g)["colScore"])

\* C6: for every matched game a shift event is raised if and only if the
\* scraped date or time differs from the persisted one, and the event carries
\* the persisted date and time as old and the scraped ones as new values.
C6_ShiftEventIff ==
    /\ \A i \in 1..Len(shiftEvents) :
           LET e == shiftEvents[i] IN
           /\ InBoth(e.game)
           /\ e.oldDate = RowOf(persistedIn, e.game)["colDate"]
           /\ e.oldTime = RowOf(persistedIn, e.game)["colTime"]
           /\ e.newDate = RowOf(Authoritative, e.game)["colDate"]
           /\ e.newTime = RowOf(Authoritative, e.game)["colTime"]
    /\ \A g \in SeqRange(merged) :
           g \in Games(shiftEvents)
               <=> \/ RowOf(Authoritative, g)["colDate"] # RowOf(persistedIn, g)["colDate"]
                   \/ RowOf(Authoritative, g)["colTime"] # RowOf(persistedIn, g)["colTime"]

\* A game whose time alone changed raised its event; another game raised none.
C6_Witness ==
    /\ MergeDone
    /\ \E i \in 1..Len(shiftEvents) :
          /\ shiftEvents[i].oldDate = shiftEvents[i].newDate
          /\ shiftEvents[i].oldTime # shiftEvents[i].newTime
    /\ \E g \in SeqRange(merged) : g \notin Games(shiftEvents)

\* C7: after merge_tables the merged table holds exactly the scraped games in
\* the scraped order; a persisted game the site no longer lists is gone from
\* it, and no message and no report concerns such a game.
C7_MergedHoldsScrapedGames ==
    /\ MergeDone => GameNumbers(gameTable) = GameNumbers(Authoritative)
    /\ \A i \in 1..Len(sent) :
           sent[i].game \in SeqRange(GameNumbers(Authoritative)) \cup {OperatorMail.game}
    /\ \A i \in 1..Len(unmatched) :
           unmatched[i] \in SeqRange(GameNumbers(Authoritative))
    /\ sendError => unmatched # <<>>

\* A persisted game was dropped and the kept game's alert was the only message.
C7_Witness ==
    /\ MergeDone
    /\ gameTable # <<>>
    /\ \E i \in 1..Len(persistedIn) :
          /\ Match(gameTable, persistedIn[i]["colNr"]) = {}
          /\ \A j \in 1..Len(sent) : sent[j].game # persistedIn[i]["colNr"]
    /\ sent # <<>>
    /\ ~sendError

Blank(row) == \A c \in VolunteerCols : row[c] = EmptyVolunteers[c]

\* C8: after merge_tables every merged row is either fully merged (all its
\* volunteer cells are the persisted row's, and the game is not reported as
\* missing) or still the scraped default (all volunteer cells empty); no game
\* is both merged and reported as missing.
C8_MergedOrDefault ==
    MergeDone =>
        /\ \A i \in 1..Len(gameTable) :
               LET g == gameTable[i]["colNr"] IN
               \/ /\ Match(persistedIn, g) # {}
                  /\ \A c \in VolunteerCols : gameTable[i][c] = RowOf(persistedIn, g)[c]
                  /\ Count(unmatched, g) = 0
               \/ Blank(gameTable[i])
        /\ \A g \in SeqRange(merged) : Count(unmatched, g) = 0

\* C9: a missing game does not stop merge_tables: every scraped row is passed,
\* the error mail is sent only after the last row, at most once, and exactly
\* when some scraped game of a category other than "GE" has no persisted row.
C9_OneOperatorMail ==
    /\ OperatorMails > 0 => MergeDone
    /\ MergeDone =>
           /\ idx = Len(Authoritative) + 1
           /\ OperatorMails <= 1
           /\ OperatorMails = 1
                  <=> \E g \in SeqRange(GameNumbers(Authoritative)) :
                          /\ RowOf(Authoritative, g)["colAK"] # "GE"
                          /\ Match(persistedIn, g) = {}

\* C10: when get_onlineTable fails the run is over: write_toXlsx and
\* upload_toDropbox do not run, the Dropbox file is the one the run found, and
\* no message has been sent.
C10_FetchFailureAborts ==
    fetched = "failed" =>
        /\ pc = "aborted"
        /\ ~wrote
        /\ ~uploaded
        /\ dropboxFile = startFile
        /\ sent = <<>>

\* The fetch failed in a run that had downloaded a filled-in schedule.
C10_Witness ==
    /\ fetched = "failed"
    /\ downloaded
    /\ dropboxFile.exists
    /\ dropboxFile.rows # <<>>

----------------------------------------------------------------------------
(* Properties of the download and of the notifications *)

MergeStarted == pc = "merge_tables" \/ MergeDone

\* C11: when the stored schedule could not be downloaded, the run is not over
\* for that: the scraped table stands in for the persisted one, merge_tables
\* raises no alert and reports nothing, and the table written and uploaded is
\* the scraped one with empty volunteer cells.
C11_DownloadFailureBootstraps ==
    (pc # "get_fromDropbox" /\ ~downloaded /\ fetched # "failed") =>
        /\ pc = "aborted" => wrote
        /\ MergeStarted =>
               /\ persistedIn = Authoritative
               /\ shiftEvents = <<>>
               /\ refEvents = <<>>
               /\ unmatched = <<>>
        /\ MergeDone => gameTable = Authoritative
        /\ uploaded => dropboxFile = File(ToExcel(Authoritative))

\* The main program is over in this run.
RunOver == pc \in {"finished", "aborted"}

Called(method) == \E i \in 1..Len(calls) : calls[i] = method

\* C12: when the run comes to the notifications and a game of tomorrow in the
\* merged table has "Heim" in its score cell, send_RefNotification is called
\* for tomorrow, every coordinator with a valid address gets its message, and
\* the run goes on to the notifications for next week.
C12_DailyRefereeDigest ==
    (uploaded /\ HomeRefereeTomorrow(gameTable)) =>
        /\ pc \in {"send_ServiceNotifications", "finished"}
               => Called("send_RefNotification")
        /\ Called("send_RefNotification") =>
               /\ exception # "TypeError"
               /\ \A i \in 1..Len(refCoordTargets) :
                      Transport(refCoordTargets[i].Address) \in {"mail", "sms"}
                          => \E j \in 1..Len(sent) :
                                 /\ sent[j].cat = "ref"
                                 /\ sent[j].to = refCoordTargets[i].Address

\* C13: when the merged table was uploaded and holds a game dated in a week,
\* the run calls send_ServiceNotifications and after it send_PreNotifications,
\* whatever games are dated tomorrow, unless a send fails on the way.
C13_NextWeekAlwaysServed ==
    (uploaded /\ OnDate(gameTable, strNextWeek) /\ RunOver /\ exception # "send") =>
        \E i, j \in 1..Len(calls) :
            /\ i < j
            /\ calls[i] = "send_ServiceNotifications"
            /\ calls[j] = "send_PreNotifications"

\* The contact column of each role.
Roles == {"colJudge1", "colJudge2", "colShop1", "colShop2", "colSecurity",
          "colCleaning", "MV"}
JobRoles == Roles \ {"MV"}
ContactCol(role) ==
    [ colJudge1 |-> "colMailJudge1", colJudge2 |-> "colMailJudge2",
      colShop1 |-> "colMailShop1", colShop2 |-> "colMailShop2",
      colSecurity |-> "colMailSecurity", colCleaning |-> "colMailCleaning",
      MV |-> "colMailJMV" ][role]

Valid(mail) == IsStr(mail) /\ (ContainsAt(mail) \/ ContainsPlus(mail))

\* The messages of a category sent for a role of a game.
MessagesFor(cat, g, role) ==
    { i \in 1..Len(sent) :
        sent[i].cat = cat /\ sent[i].game = g /\ sent[i].task = role }

\* The receiver got the one message its contact asks for: an e-mail for "@",
\* an SMS for "+" without "@", nothing otherwise.
ServedByContact(cat, g, role, mail) ==
    LET M == MessagesFor(cat, g, role) IN
    /\ Cardinality(M) = IF Valid(mail) THEN 1 ELSE 0
    /\ \A i \in M :
           /\ sent[i].to = mail
           /\ sent[i].via = IF ContainsAt(mail) THEN "mail" ELSE "sms"

\* send_Notifications has returned in this run.
NotificationsReturned ==
    Called("send_Notifications") /\ (pc # "aborted" \/ Len(calls) > 1)

WarningsFor(cat, g, role) ==
    { i \in 1..Len(warned) :
        warned[i].cat = cat /\ warned[i].game = g /\ warned[i].task = role }

\* A receiver without a valid contact has its one warning and no message; a
\* receiver with a valid contact has its one message.
SkippedOrServed(cat, g, role, mail) ==
    IF Valid(mail)
    THEN Cardinality(MessagesFor(cat, g, role)) = 1 /\ WarningsFor(cat, g, role) = {}
    ELSE Cardinality(WarningsFor(cat, g, role)) = 1 /\ MessagesFor(cat, g, role) = {}

\* send_PreNotifications has returned in this run.
PreNotificationsReturned == pc = "finished" /\ Called("send_PreNotifications")

\* The roles send_PreNotifications addresses for the i-th game of the date.
PreRoles(i) == IF i = 1 THEN JobRoles \ {"colShop1", "colShop2"} ELSE JobRoles

\* C15: a receiver whose contact is empty, not a string, or without "@" and
\* "+" costs one warning and its own message only: when send_Notifications or
\* send_PreNotifications has returned, every other receiver of the game and
\* of the later games of the date has its message.
C15_InvalidContactSkipsOne ==
    /\ NotificationsReturned =>
           LET note == NoteTable(gameTable, strTomorrow) IN
           \A i \in 1..Len(note) : \A role \in Roles :
               SkippedOrServed("task", note[i]["colNr"], role, note[i][ContactCol(role)])
    /\ PreNotificationsReturned =>
           LET note == NoteTable(gameTable, strNextWeek) IN
           \A i \in 1..Len(note) : \A role \in PreRoles(i) :
               SkippedOrServed("pre", note[i]["colNr"], role, note[i][ContactCol(role)])

\* A receiver of the first game was passed over with a warning; a later
\* receiver of that game and a receiver of the next game got their messages.
C15_Witness ==
    /\ NotificationsReturned
    /\ LET note == NoteTable(gameTable, strTomorrow) IN
       /\ Len(note) = 2
       /\ WarningsFor("task", note[1]["colNr"], "colShop1") # {}
       /\ MessagesFor("task", note[1]["colNr"], "colSecurity") # {}
       /\ MessagesFor("task", note[2]["colNr"], "colShop2") # {}

\* The game's score cell changed and now contains "Heim".
RefereeNewlyMissing(g) ==
    /\ RowOf(Authoritative, g)["colScore"] # RowOf(persistedIn, g)["colScore"]
    /\ ContainsHeim(RowOf(Authoritative, g)["colScore"])

\* merge_tables' pass for the game is over, not cut short by a failing send.
Passed(g) ==
    /\ g \in SeqRange(merged)
    /\ ~(pc = "aborted" /\ ~wrote /\ exception = "send" /\ merged[Len(merged)] = g)

\* C16: for every matched game whose score cell changed to one with "Heim",
\* merge_tables sends the referee alert at once, one message to every
\* coordinator with a valid address, by e-mail for "@" and by SMS for "+", and
\* then goes on with the next game and the merged table is written.
C16_RefereeAlertPerEvent ==
    /\ exception # "KeyError"
    /\ \A g \in SeqRange(merged) :
           (RefereeNewlyMissing(g) /\ Passed(g)) =>
               \A i \in 1..Len(refCoordTargets) :
                   ServedByContact("ref", g, refCoordTargets[i].Name,
                                   refCoordTargets[i].Address)

\* C17: for every shift of a matched game merge_tables sends the shift
\* alert, whatever the game's date, to the seven roles of the task
\* notification (the six jobs and the liaison), one message per role with a
\* valid contact, to the contacts of the persisted row.
C17_ShiftAlertRoles ==
    \A i \in 1..Len(shiftEvents) :
        LET g == shiftEvents[i].game IN
        Passed(g) =>
            \A role \in Roles :
                ServedByContact("shift", g, role, RowOf(persistedIn, g)[ContactCol(role)])

TaskMessages == { i \in 1..Len(sent) : sent[i].cat = "task" }

\* C18: send_Notifications(date) sends exactly one message for each game of
\* the date whose guest is not "spielfrei" and each of the seven roles with a
\* valid contact, nothing for any other game, and returns the number of
\* messages it sent.
C18_TaskNotifications ==
    /\ ~Called("send_Notifications") => TaskMessages = {}
    /\ NotificationsReturned =>
           \A i \in 1..Len(gameTable) : \A role \in Roles :
               LET row == gameTable[i] IN
               Cardinality(MessagesFor("task", row["colNr"], role))
                   = IF /\ row["colDate"] = strTomorrow
                        /\ row["colGuest"] # "spielfrei"
                        /\ Valid(row[ContactCol(role)])
                     THEN 1 ELSE 0
    /\ pc = "send_RefNotification" => cnt = Cardinality(TaskMessages)

\* The method served tomorrow's game and left out a game of another date
\* whose contacts are valid.
C18_Witness ==
    /\ pc = "send_RefNotification"
    /\ cnt > 2
    /\ \E i, j \in 1..Len(gameTable) :
          /\ gameTable[i]["colDate"] = strTomorrow
          /\ MessagesFor("task", gameTable[i]["colNr"], "MV") # {}
          /\ gameTable[j]["colDate"] # strTomorrow
          /\ Valid(gameTable[j]["colMailShop1"])
          /\ MessagesFor("task", gameTable[j]["colNr"], "colShop1") = {}

\* C19: send_PreNotifications addresses, for every game of the date, the
\* seven roles of the task notification, leaving out only the two shop jobs
\* of the first game of the date.
C19_PreTaskRoles ==
    PreNotificationsReturned =>
        LET note == NoteTable(gameTable, strNextWeek) IN
        \A i \in 1..Len(note) : \A role \in Roles :
            IF i = 1 /\ role \in {"colShop1", "colShop2"}
            THEN MessagesFor("pre", note[i]["colNr"], role) = {}
            ELSE ServedByContact("pre", note[i]["colNr"], role, note[i][ContactCol(role)])

Partner(role) == IF role = "colShop1" THEN "colShop2" ELSE "colShop1"

\* C20: when send_ServiceNotifications and then send_PreNotifications have
\* returned, every shop job with a valid contact of every game of the date has
\* exactly one message: those of the first game from
\* send_ServiceNotifications, naming the holder of the other shop job as
\* partner, those of the later games from send_PreNotifications.
C20_ShopJobsOnce ==
    PreNotificationsReturned =>
        LET note == NoteTable(gameTable, strNextWeek) IN
        \A i \in 1..Len(note) : \A role \in {"colShop1", "colShop2"} :
            LET g == note[i]["colNr"]
                mail == note[i][ContactCol(role)]
            IN /\ ServedByContact(IF i = 1 THEN "service" ELSE "pre", g, role, mail)
               /\ MessagesFor(IF i = 1 THEN "pre" ELSE "service", g, role) = {}
               /\ \A k \in MessagesFor("service", g, role) :
                      sent[k].partner = note[i][Partner(role)]

\* Two games in a week: a shop job of the first was served by
\* send_ServiceNotifications with its partner's name, both shop jobs of the
\* second by send_PreNotifications.
C20_Witness ==
    /\ PreNotificationsReturned
    /\ LET note == NoteTable(gameTable, strNextWeek) IN
       /\ Len(note) = 2
       /\ \E k \in MessagesFor("service", note[1]["colNr"], "colShop2") :
              sent[k].partner = "Carl"
       /\ MessagesFor("pre", note[2]["colNr"], "colShop1") # {}
       /\ MessagesFor("pre", note[2]["colNr"], "colShop2") # {}

----------------------------------------------------------------------------
(* Properties of failing sends, of the counter and of repeated runs *)

\* C21: a send_Mail or send_SMS that raises is caught nowhere: the main
\* program is over and no message of any kind is sent in the rest of the run.
C21_SendFailureEndsRun ==
    [][exception = "send" => (pc = "aborted" /\ (run' = run => sent' = sent))]_vars

\* A send failed after the first messages of send_Notifications had gone
\* out, with receivers of valid contact still to come.
C21_Witness ==
    /\ exception = "send"
    /\ calls = << "send_Notifications" >>
    /\ TaskMessages # {}
    /\ \E i \in 1..Len(gameTable) :
          /\ gameTable[i]["colDate"] = strTomorrow
          /\ Valid(gameTable[i]["colMailJMV"])
          /\ MessagesFor("task", gameTable[i]["colNr"], "MV") = {}

\* send_Article has returned: its schedule.
ArticleReturned == pc = "finished" /\ Called("send_Article")
Schedule == sent[Len(sent)].schedule
LinesOf(kind) == { i \in 1..Len(Schedule) : Schedule[i].kind = kind }

\* C22: the schedule of the article holds at most one tournament line for
\* "MI" and at most one for "GE", however many games of these categories
\* noteTable has, exactly one line of its own for every game of another
\* category, and send_Article returns the number of lines.
C22_ArticleLines ==
    ArticleReturned =>
        LET note == NoteTable(gameTable, ArticleDate) IN
        /\ Cardinality(LinesOf("MI")) <= 1
        /\ Cardinality(LinesOf("GE")) <= 1
        /\ \A j \in 1..Len(note) :
               note[j]["colAK"] \notin {"MI", "GE"} =>
                   Cardinality({ i \in LinesOf("game") :
                                   Schedule[i].game = note[j]["colNr"] }) = 1
        /\ cnt = Len(Schedule)

\* A table with two games of category "MI" and a game of the women's team:
\* one tournament line, and the line of the women's game.
C22_Witness ==
    /\ ArticleReturned
    /\ LET note == NoteTable(gameTable, ArticleDate) IN
       /\ Cardinality({ j \in 1..Len(note) : note[j]["colAK"] = "MI" }) = 2
       /\ \E j \in 1..Len(note) : note[j]["colAK"] = "F"
    /\ Cardinality(LinesOf("MI")) = 1
    /\ \E i \in LinesOf("game") : Schedule[i].team = "Damen" /\ Schedule[i].time = "18:00"

\* C23: the number the main program logs for the reminders of next week is
\* the sum of what send_ServiceNotifications and send_PreNotifications
\* returned: the number of messages of the two kinds that were sent.
C23_NextWeekCountAggregates ==
    PreNotificationsReturned =>
        cnt = Cardinality({ i \in 1..Len(sent) : sent[i].cat \in {"service", "pre"} })

\* The rows of the persisted table with game number g: the first, the last.
Duplicated(g) == Cardinality(Match(persistedIn, g)) > 1
FirstRecord(g) ==
    persistedIn[CHOOSE i \in Match(persistedIn, g) :
                    \A j \in Match(persistedIn, g) : i <= j]
LastRecord(g) ==
    persistedIn[CHOOSE i \in Match(persistedIn, g) :
                    \A j \in Match(persistedIn, g) : i >= j]

\* After merge_tables, the merged row of game g has the volunteer cells of
\* the persisted row old, and the changes were detected against old's date,
\* time and score cell.
MergedAgainst(g, old) ==
    LET new == RowOf(gameTable, g) IN
    /\ \A c \in VolunteerCols : new[c] = old[c]
    /\ (\E i \in 1..Len(shiftEvents) : shiftEvents[i].game = g)
           <=> datum_shift_handler(old["colDate"], old["colTime"],
                                   new["colDate"], new["colTime"])
    /\ \A i \in 1..Len(shiftEvents) :
           shiftEvents[i].game = g =>
               /\ shiftEvents[i].oldDate = old["colDate"]
               /\ shiftEvents[i].oldTime = old["colTime"]
    /\ (\E i \in 1..Len(refEvents) : refEvents[i].game = g)
           => no_referee_handler(old["colScore"], new["colScore"])
    /\ (no_referee_handler(old["colScore"], new["colScore"])
          /\ Match(ShiftNoteTable(persistedIn), g) # {})
           => \E i \in 1..Len(refEvents) : refEvents[i].game = g

\* C24 as stated: when the persisted table has several rows with a game
\* number, merge_tables works with the last of them: its volunteer cells are
\* copied and its date, time and score cell are the old values.
C24_LastMatchWins ==
    MergeDone =>
        \A g \in SeqRange(GameNumbers(Authoritative)) :
            Duplicated(g) => MergedAgainst(g, LastRecord(g))

\* C24, amended: when the persisted table has several rows with a game
\* number, merge_tables works with the first of them: its volunteer cells are
\* copied and its date, time and score cell are the old values.
C24_FirstMatchWins ==
    MergeDone =>
        \A g \in SeqRange(GameNumbers(Authoritative)) :
            Duplicated(g) => MergedAgainst(g, FirstRecord(g))

\* The game has two persisted rows and the site lists it as the first row
\* has it but for the referee: the first row's volunteers are kept, no shift
\* is seen although the last row has another date, and the missing referee
\* is seen although the last row already had "Heim".
C24_Witness ==
    /\ MergeDone
    /\ \E g \in SeqRange(GameNumbers(Authoritative)) :
          /\ Duplicated(g)
          /\ FirstRecord(g)["colJudge1"] # LastRecord(g)["colJudge1"]
          /\ RowOf(gameTable, g)["colJudge1"] = FirstRecord(g)["colJudge1"]
          /\ RowOf(gameTable, g)["colDate"] = FirstRecord(g)["colDate"]
          /\ RowOf(gameTable, g)["colDate"] # LastRecord(g)["colDate"]
          /\ shiftEvents = <<>>
          /\ \E i \in 1..Len(refEvents) : refEvents[i].game = g

\* The previous run ended in a failing alert of merge_tables, and this run
\* finds the site as that run did and reads the stored file as that run did.
RetryAfterFailedAlert ==
    /\ prev.alertFailed
    /\ website = prev.site
    /\ prev.downloaded
    /\ downloaded

\* C25: the shift and referee alerts are sent inside merge_tables, before
\* write_toXlsx and upload_toDropbox.  When such a send raises, the run is
\* over with the merged table neither written nor uploaded and the Dropbox
\* file as the run found it; the next run, the site unchanged, sees for every
\* game it passes the changes of the failed run again and sends the alerts
\* the failed run had already sent once more.
C25_FailedAlertIsRepeated ==
    /\ AlertFailed =>
           /\ ~wrote
           /\ ~uploaded
           /\ dropboxFile = startFile
    /\ RetryAfterFailedAlert =>
           \A g \in SeqRange(merged) :
               Passed(g) =>
                   /\ g \in prev.shift => g \in Games(shiftEvents)
                   /\ g \in prev.ref => g \in Games(refEvents)
                   /\ \A m \in prev.alerts :
                          m.game = g => \E i \in 1..Len(sent) : sent[i] = m

\* The failed run had sent an alert of a shifted game before a later send
\* raised; this run has passed the game and sent the same alert to the same
\* receiver again.
C25_Witness ==
    /\ RetryAfterFailedAlert
    /\ \E g \in SeqRange(merged) :
          /\ Passed(g)
          /\ g \in prev.shift
          /\ \E m \in prev.alerts :
                /\ m.game = g
                /\ m.cat = "shift"
                /\ \E i \in 1..Len(sent) : sent[i] = m

\* The rows of the stored file with game number g.
StoredRows(g) ==
    { i \in 1..Len(dropboxFile.rows) : dropboxFile.rows[i]["colNr"] = g }

\* C26: a game merge_tables reports as missing is in the merged table, and in
\* the file stored from it, with empty volunteer cells; the next run, finding
\* the site unchanged, matches the game and reports nothing: the operator
\* gets no second mail for it.
C26_UnmatchedReportedOnce ==
    /\ MergeDone =>
           \A g \in SeqRange(unmatched) :
               /\ Match(gameTable, g) # {}
               /\ Blank(RowOf(gameTable, g))
               /\ uploaded =>
                      /\ StoredRows(g) # {}
                      /\ \A i \in StoredRows(g) : Blank(dropboxFile.rows[i])
    /\ (prev.ran /\ prev.uploaded /\ website = prev.site) =>
           /\ \A g \in prev.unmatched :
                  /\ g \notin SeqRange(unmatched)
                  /\ g \in SeqRange(merged) => Match(persistedIn, g) # {}
           /\ OperatorMails = 0

====
